---- MODULE Spec2Model ----
(***************************************************************************)
(* A model of the interactive shell of src/src/main.rs: the read-eval loop *)
(* of main, command_type, the redirection Parser, run_command and          *)
(* execute_pipeline with the child processes and pipes it creates.         *)
(*                                                                         *)
(* Text is a sequence of atoms. An atom is a one-character string that the *)
(* code treats specially (space, |, quotes, backslash, #) or a run of      *)
(* ordinary characters, which every scanner in the code copies unchanged.  *)
(* Tokens are strings, built by concatenating atoms.                       *)
(***************************************************************************)
EXTENDS Integers, Sequences, FiniteSets, TLC

\* ------------------------------------------------------------------ bounds
\* Longest pipeline (number of |-separated segments) the line source offers.
MaxStages == 3
\* Capacity of an OS pipe, in chunks.
PipeCap == 1

\* ------------------------------------------------------------- text helpers
IsSpace(c) == c \in {" ", "\t", "\n"}

RECURSIVE JoinWith(_, _)
\* Vec<String>::join(sep): the tokens with sep between them, as one string.
JoinWith(toks, sep) ==
    IF toks = <<>> THEN ""
    ELSE IF Len(toks) = 1 THEN toks[1]
    ELSE toks[1] \o sep \o JoinWith(Tail(toks), sep)

RECURSIVE TrimStart(_)
TrimStart(s) == IF s # <<>> /\ IsSpace(Head(s)) THEN TrimStart(Tail(s)) ELSE s

RECURSIVE TrimEnd(_)
TrimEnd(s) ==
    IF s # <<>> /\ IsSpace(s[Len(s)]) THEN TrimEnd(SubSeq(s, 1, Len(s) - 1)) ELSE s

\* str::trim
Trim(s) == TrimEnd(TrimStart(s))

\* str::contains('|')
ContainsPipe(s) == \E k \in 1..Len(s) : s[k] = "|"

RECURSIVE SplitPipe(_, _)
\* str::split('|'): the pieces between the | characters, empty pieces kept;
\* cur is the piece being collected.
SplitPipe(s, cur) ==
    IF s = <<>> THEN <<cur>>
    ELSE IF Head(s) = "|" THEN <<cur>> \o SplitPipe(Tail(s), <<>>)
    ELSE SplitPipe(Tail(s), Append(cur, Head(s)))

RECURSIVE TrimAll(_)
TrimAll(ss) == IF ss = <<>> THEN <<>> ELSE <<Trim(Head(ss))>> \o TrimAll(Tail(ss))

\* main: readline.split('|').map(|s| s.trim()).collect()
SplitCommands(line) == TrimAll(SplitPipe(line, <<>>))

\* ---------------------------------------------------------------- tokenizer
\* Shlex: the word scanner the shell hands every command text to.
RECURSIVE parse_single_keeping(_, _, _)
\* Mutant of parse_single: the closing ' stays in the word.
parse_single_keeping(s, p, w) ==
    IF p > Len(s) THEN [ok |-> FALSE, pos |-> p, word |-> w]
    ELSE IF s[p] = "'" THEN [ok |-> TRUE, pos |-> p + 1, word |-> w \o "'"]
    ELSE parse_single_keeping(s, p + 1, w \o s[p])

RECURSIVE parse_single(_, _, _)
\* After an opening ': copy up to the closing '. ok is FALSE when the text
\* ends first.
parse_single(s, p, w) ==
    IF p > Len(s) THEN [ok |-> FALSE, pos |-> p, word |-> w]
    ELSE IF s[p] = "'" THEN [ok |-> TRUE, pos |-> p + 1, word |-> w]
    ELSE parse_single(s, p + 1, w \o s[p])

RECURSIVE parse_double(_, _, _)
\* After an opening ": copy up to the closing ", a backslash escaping only
\* the characters $ " \ and newline.
parse_double(s, p, w) ==
    IF p > Len(s) THEN [ok |-> FALSE, pos |-> p, word |-> w]
    ELSE IF s[p] = "\"" THEN [ok |-> TRUE, pos |-> p + 1, word |-> w]
    ELSE IF s[p] = "\\" THEN
        IF p + 1 > Len(s) THEN [ok |-> FALSE, pos |-> p + 1, word |-> w]
        ELSE IF s[p + 1] \in {"$", "\"", "\\"}
             THEN parse_double(s, p + 2, w \o s[p + 1])
        ELSE IF s[p + 1] = "\n" THEN parse_double(s, p + 2, w)
        ELSE parse_double(s, p + 2, (w \o "\\") \o s[p + 1])
    ELSE parse_double(s, p + 1, w \o s[p])

RECURSIVE parse_word(_, _, _)
\* One word starting at p: quoted runs and plain text with no whitespace
\* between them are one word.
parse_word(s, p, w) ==
    IF p > Len(s) THEN [ok |-> TRUE, pos |-> p, word |-> w]
    ELSE IF s[p] = "\"" THEN
        LET r == parse_double(s, p + 1, w)
        IN  IF r.ok THEN parse_word(s, r.pos, r.word) ELSE r
    ELSE IF s[p] = "'" THEN
        LET r == parse_single(s, p + 1, w)
        IN  IF r.ok THEN parse_word(s, r.pos, r.word) ELSE r
    ELSE IF s[p] = "\\" THEN
        IF p + 1 > Len(s) THEN [ok |-> FALSE, pos |-> p + 1, word |-> w]
        ELSE IF s[p + 1] = "\n" THEN parse_word(s, p + 2, w)
        ELSE parse_word(s, p + 2, w \o s[p + 1])
    ELSE IF IsSpace(s[p]) THEN [ok |-> TRUE, pos |-> p + 1, word |-> w]
    ELSE parse_word(s, p + 1, w \o s[p])

RECURSIVE SkipComment(_, _)
SkipComment(s, p) ==
    IF p > Len(s) THEN p
    ELSE IF s[p] = "\n" THEN p + 1
    ELSE SkipComment(s, p + 1)

RECURSIVE SkipBlank(_, _)
\* The position of the first character of the next word: whitespace and
\* # comments are skipped.
SkipBlank(s, p) ==
    IF p > Len(s) THEN p
    ELSE IF IsSpace(s[p]) THEN SkipBlank(s, p + 1)
    ELSE IF s[p] = "#" THEN SkipBlank(s, SkipComment(s, p + 1))
    ELSE p

RECURSIVE ShlexFrom(_, _)
\* The words Shlex::next yields from position p until it first yields None
\* (end of text, or a word that cannot be completed).
ShlexFrom(s, p) ==
    LET q == SkipBlank(s, p)
    IN  IF q > Len(s) THEN <<>>
        ELSE LET r == parse_word(s, q, "")
             IN  IF r.ok THEN <<r.word>> \o ShlexFrom(s, r.pos) ELSE <<>>

RECURSIVE ShlexOkFrom(_, _)
\* Shlex's had_error flag, negated: FALSE when the scan from p ends inside a
\* quote or an escape.
ShlexOkFrom(s, p) ==
    LET q == SkipBlank(s, p)
    IN  IF q > Len(s) THEN TRUE
        ELSE LET r == parse_word(s, q, "")
             IN  r.ok /\ ShlexOkFrom(s, r.pos)

\* The text scans without an error.
ShlexOk(s) == ShlexOkFrom(s, 1)

\* Shlex::new(text) drained: every token it yields.
Shlex(s) == ShlexFrom(s, 1)

\* ------------------------------------------------------------- file system
\* The directories and programs of the machine the shell runs on. A path
\* that is not listed does not exist. /usr holds a second cat, a script
\* seq.sh and a directory named true; /locked cannot be listed.
\*   isdir    Path::is_dir
\*   xbit     metadata().permissions().mode() & 0o111 != 0
\*   listable read_dir succeeds
\*   entries  the directory's entries, in read_dir order
\*   name     Path::file_name ("" when it has none), stem: Path::file_stem
FsEntry(isdir, xbit, listable, entries, name, stem) ==
    [isdir |-> isdir, xbit |-> xbit, listable |-> listable,
     entries |-> entries, name |-> name, stem |-> stem]

FS ==
    [p \in {"/", "/tmp", "/bin", "/locked", "/usr",
            "/bin/cat", "/bin/seq", "/bin/true", "/bin/bad", "/bin/notes",
            "/usr/cat", "/usr/seq.sh", "/usr/true"} |->
        CASE p = "/"          -> FsEntry(TRUE, TRUE, TRUE,
                                   <<"/bin", "/locked", "/tmp", "/usr">>, "", "")
          [] p = "/tmp"       -> FsEntry(TRUE, TRUE, TRUE, <<>>, "tmp", "tmp")
          [] p = "/bin"       -> FsEntry(TRUE, TRUE, TRUE,
                                   <<"/bin/notes", "/bin/cat", "/bin/seq",
                                     "/bin/true", "/bin/bad">>, "bin", "bin")
          [] p = "/locked"    -> FsEntry(TRUE, TRUE, FALSE, <<>>, "locked", "locked")
          [] p = "/usr"       -> FsEntry(TRUE, TRUE, TRUE,
                                   <<"/usr/cat", "/usr/seq.sh", "/usr/true">>,
                                   "usr", "usr")
          [] p = "/bin/cat"   -> FsEntry(FALSE, TRUE, FALSE, <<>>, "cat", "cat")
          [] p = "/bin/seq"   -> FsEntry(FALSE, TRUE, FALSE, <<>>, "seq", "seq")
          [] p = "/bin/true"  -> FsEntry(FALSE, TRUE, FALSE, <<>>, "true", "true")
          [] p = "/bin/bad"   -> FsEntry(FALSE, TRUE, FALSE, <<>>, "bad", "bad")
          [] p = "/bin/notes" -> FsEntry(FALSE, FALSE, FALSE, <<>>, "notes", "notes")
          [] p = "/usr/cat"   -> FsEntry(FALSE, TRUE, FALSE, <<>>, "cat", "cat")
          [] p = "/usr/seq.sh" -> FsEntry(FALSE, TRUE, FALSE, <<>>, "seq.sh", "seq")
          [] p = "/usr/true"  -> FsEntry(TRUE, TRUE, TRUE, <<>>, "true", "true")]

Exists(p) == p \in DOMAIN FS
is_dir(p) == Exists(p) /\ FS[p].isdir

\* is_executable (unix): the metadata can be read and some execute bit is set.
is_executable(p) == Exists(p) /\ FS[p].xbit

\* What running the program at a path does: "cat" copies its input to its
\* output until end of input, "seq" writes a fixed number of chunks, "true"
\* exits at once. "/bin/bad" has an execute bit but cannot be executed.
Behaviour(p) ==
    CASE p = "/bin/cat" -> "cat" [] p = "/bin/seq" -> "seq" [] OTHER -> "true"
SpawnOk(p) == Exists(p) /\ ~FS[p].isdir /\ p # "/bin/bad"

\* Path::is_absolute, for the paths the line source offers.
is_absolute(p) == p \in (DOMAIN FS \cup {"/nodir", "/nodir/x"})

\* Path::join of a directory and a relative path.
PathJoin(dir, rel) ==
    IF rel = "" THEN dir ELSE IF dir = "/" THEN "/" \o rel ELSE (dir \o "/") \o rel

\* std::env::home_dir
HomeDir == "/tmp"

\* ---------------------------------------------------------- command_type
Cmd(kind, path) == [kind |-> kind, path |-> path]
NoCommand == Cmd("None", "")

RECURSIVE FirstMatch(_, _)
\* The first entry of a directory listing whose file_stem is com and which
\* is executable, or "" when there is none.
FirstMatch(entries, com) ==
    IF entries = <<>> THEN ""
    ELSE IF FS[Head(entries)].stem = com /\ is_executable(Head(entries))
         THEN Head(entries)
    ELSE FirstMatch(Tail(entries), com)

RECURSIVE ScanPath(_, _)
\* The closure of command_type over split_paths(PATH).
ScanPath(ps, com) ==
    IF ps = <<>> THEN NoCommand
    ELSE LET path == Head(ps)
             hit == IF is_dir(path) /\ FS[path].listable
                    THEN FirstMatch(FS[path].entries, com) ELSE ""
         IN  IF is_dir(path) /\ ~FS[path].listable THEN NoCommand
             ELSE IF hit # "" THEN Cmd("Program", hit)
             ELSE IF is_executable(path) /\ FS[path].name = "" THEN NoCommand
             ELSE IF is_executable(path) /\ FS[path].name = com
                  THEN Cmd("Program", path)
             ELSE ScanPath(Tail(ps), com)

Builtins == {"exit", "echo", "cd", "pwd", "history", "type"}

BuiltinKind(com) ==
    CASE com = "exit" -> "Exit" [] com = "echo" -> "Echo" [] com = "cd" -> "Cd"
      [] com = "pwd" -> "Pwd" [] com = "history" -> "History" [] com = "type" -> "Type"

\* command_type(com) with PATH split into ps.
command_type(ps, com) ==
    IF com \in Builtins THEN Cmd(BuiltinKind(com), "") ELSE ScanPath(ps, com)

\* ------------------------------------------------------------------ Parser
\* An open file: the name it was opened under; File::create truncates,
\* the append form keeps the content.
NoFile == [open |-> FALSE, name |-> "", append |-> FALSE]
FileHandle(name, append) == [open |-> TRUE, name |-> name, append |-> append]

\* File::create / File::options().append(true).create(true).open succeed
\* unless the target's directory is missing or the target is a directory.
CanOpen(name) == name # "/nodir/x" /\ ~is_dir(name)

\* Mutant of OpenFile: the append form truncates too.
OpenFileTruncating(fs, name, append) ==
    [n \in DOMAIN fs \cup {name} |-> IF n = name THEN <<>> ELSE fs[n]]

\* The files after opening name: created empty when absent, emptied when
\* opened by File::create, kept when opened for append.
OpenFile(fs, name, append) ==
    [n \in DOMAIN fs \cup {name} |->
        IF n = name THEN (IF append /\ name \in DOMAIN fs THEN fs[name] ELSE <<>>)
        ELSE fs[n]]

\* The files after writing text through an open handle.
WriteFile(fs, h, text) == [fs EXCEPT ![h.name] = Append(@, text)]

StdoutOps == {">", "1>", ">>", "1>>"}
StderrOps == {"2>", "2>>"}
AppendOps == {">>", "1>>", "2>>"}
RedirOps == StdoutOps \cup StderrOps

ParserNew(fs) ==
    [args |-> <<>>, stdout |-> NoFile, stderr |-> NoFile, files |-> fs,
     panic |-> FALSE]

RECURSIVE ParserDrain(_, _)
\* Parser::next called until it yields None, on the tokens toks that Shlex
\* still holds: st.args collects what it yields. Each call takes one token;
\* when that token is an operator it takes the following token as the
\* target, opens it, and yields the token after that, whatever it is.
ParserDrain(toks, st) ==
    IF toks = <<>> THEN st
    ELSE LET next == Head(toks)
             rest == Tail(toks)
         IN  IF next \in RedirOps THEN
                 IF rest = <<>> THEN st
                 ELSE IF ~CanOpen(rest[1]) THEN [st EXCEPT !.panic = TRUE]
                 ELSE LET h == FileHandle(rest[1], next \in AppendOps)
                          fs1 == OpenFile(st.files, rest[1], next \in AppendOps)
                          st1 == IF next \in StdoutOps
                                 THEN [st EXCEPT !.stdout = h, !.files = fs1]
                                 ELSE [st EXCEPT !.stderr = h, !.files = fs1]
                      IN  IF Len(rest) < 2 THEN st1
                          ELSE ParserDrain(SubSeq(rest, 3, Len(rest)),
                                           [st1 EXCEPT !.args = Append(@, rest[2])])
             ELSE ParserDrain(rest, [st EXCEPT !.args = Append(@, next)])

\* Parser::new(args) consumed by collect() or Command::args.
Parser(toks, fs) == ParserDrain(toks, ParserNew(fs))

\* ------------------------------------------------------------ input lines
RECURSIVE Words(_)
\* The text of the given words with one space between them.
Words(ws) ==
    IF ws = <<>> THEN <<>>
    ELSE IF Len(ws) = 1 THEN <<ws[1]>>
    ELSE <<ws[1], " ">> \o Words(Tail(ws))

RECURSIVE JoinPipe(_)
\* The text of the given segments with " | " between them.
JoinPipe(segs) ==
    IF Len(segs) = 1 THEN Words(segs[1])
    ELSE Words(segs[1]) \o <<" ", "|", " ">> \o JoinPipe(Tail(segs))

\* Lines without a pipe that the line source may deliver.
SingleLines ==
    {<<>>, <<" ">>} \cup
    { Words(w) : w \in
        {<<"echo", "hi">>, <<"echo", "hi", ">", "out">>, <<"echo", "hi", ">">>,
         <<"echo", "hi", ">", "/nodir/x">>,
         <<"cd", "/tmp">>, <<"cd", "/">>, <<"cd", "tmp">>, <<"cd", "/nodir">>,
         <<"cd", "~">>, <<"cd">>, <<"pwd">>,
         <<"type", "cat">>, <<"type", "echo">>, <<"type", "nosuch">>, <<"type">>,
         <<"history">>, <<"history", "2">>, <<"history", "abc">>,
         <<"history", "-r">>, <<"history", "-r", "hist">>,
         <<"exit">>, <<"nosuch">>, <<"bad">>,
         <<"cat">>, <<"seq">>, <<"true">>, <<"true", ">", "out">>,
         <<"true", ">", "out", "2>", "out">>, <<"true", "2>", "out", "x">>,
         <<"echo", ">", "out", "hi">>,
         <<"seq", ">">>} }

\* Lines with a quote that is never closed.
QuoteLines ==
    {<<"echo", " ", "hi", " ", "'", "x">>, <<"echo", " ", "\"", "hi">>,
     <<"seq", " ", "'">>}

\* Segments a pipeline may be made of.
Segments ==
    {<<"echo", "hi">>, <<"cat">>, <<"seq">>,
     <<"nosuch">>, <<"cd", "/tmp">>, <<"exit">>, <<>>}

PipeLines ==
    UNION { { JoinPipe(ss) : ss \in [1..n -> Segments] } : n \in 2..MaxStages }

\* Pipelines with a redirection in a stage.
RedirectedPipeLines ==
    {JoinPipe(<<<<"echo", "hi", ">", "out">>, <<"cat">>>>),
     JoinPipe(<<<<"seq">>, <<"cat", ">", "out">>>>)}

Lines == SingleLines \cup QuoteLines \cup PipeLines \cup RedirectedPipeLines

\* ------------------------------------------------------------------- state
VARIABLES
    pc,               \* where the shell is: "read" (top of the loop), "prompt",
                      \* "eval", "stage", "write", "wait", "run_wait" or
                      \* "terminated"
    reason,           \* why main ended: "exit", "eof", "error" or "panic"
    line,             \* the line readline returned
    cwd0,             \* the working directory when that line was read
    commands,         \* execute_pipeline: the trimmed segments
    i,                \* execute_pipeline: the stage being launched (from 1)
    children,         \* execute_pipeline: Vec<Child>, as process ids
    previous_output,  \* execute_pipeline: Option<PipeOutput>
    pend,             \* the child and text of a buffered write in progress
    k,                \* the wait loop: index into children being waited on
    procs,            \* every process spawned for this line, in spawn order
    pipes,            \* every pipe created for this line
    waited,           \* the processes whose wait() has returned, in order
    cwd,              \* the process working directory
    files,            \* content of the files redirections have opened
    paths,            \* split_paths(PATH)
    terminal,         \* what this line has put on the terminal's stdout
    errs,             \* what the shell has put on stderr for this line
    result            \* how handling the line ended: "", "ok" or an error text

vars == <<pc, reason, line, cwd0, commands, i, children, previous_output, pend, k,
          procs, pipes, waited, cwd, files, paths, terminal, errs, result>>

pipelineVars == <<commands, i, children, previous_output, pend, k>>
osVars == <<procs, pipes, waited>>
envVars == <<cwd, files, paths>>

\* The shell itself as a holder of a pipe end; processes are 1, 2, ...
Shell == 0

NoOutput == [kind |-> "None", pipe |-> 0, content |-> ""]
ChildStdout(p) == [kind |-> "ChildStdout", pipe |-> p, content |-> ""]
Buffer(text) == [kind |-> "Buffer", pipe |-> 0, content |-> text]

NoPend == [child |-> 0, content |-> ""]

\* A stream of a process: the terminal, a pipe or an open file.
Tty == [kind |-> "tty", pipe |-> 0, name |-> ""]
PipeEnd(p) == [kind |-> "pipe", pipe |-> p, name |-> ""]
ToFile(h) == [kind |-> "file", pipe |-> 0, name |-> h.name]
Stream(h) == IF h.open THEN ToFile(h) ELSE Tty

\* Chunks a "seq" process writes before it exits: one more than a pipe holds.
SeqChunks == PipeCap + 1

\* The state when main enters its loop, PATH holding the entries ps.
InitEnv(ps) ==
    /\ pc = "read"
    /\ reason = ""
    /\ line = <<>>
    /\ cwd0 = "/"
    /\ commands = <<>>
    /\ i = 0
    /\ children = <<>>
    /\ previous_output = NoOutput
    /\ pend = NoPend
    /\ k = 0
    /\ procs = <<>>
    /\ pipes = <<>>
    /\ waited = <<>>
    /\ cwd = "/"
    /\ files = <<>>
    /\ paths = ps
    /\ terminal = <<>>
    /\ errs = <<>>
    /\ result = ""

Init == InitEnv(<<"/bin">>)

\* ------------------------------------------------------------ main's loop
\* The loop calls rl.readline("$ "): the prompt is shown and the shell
\* blocks for input. What the previous line left behind (its processes,
\* pipes and output) is no longer tracked.
Prompt ==
    /\ pc = "read"
    /\ pc' = "prompt"
    /\ line' = <<>>
    /\ cwd0' = cwd
    /\ procs' = <<>> /\ pipes' = <<>> /\ waited' = <<>>
    /\ terminal' = <<>> /\ errs' = <<>> /\ result' = ""
    /\ commands' = <<>> /\ i' = 0 /\ k' = 0
    /\ children' = <<>> /\ previous_output' = NoOutput /\ pend' = NoPend
    /\ UNCHANGED <<reason, envVars>>

\* rl.readline returns a line, one of those the line source ls offers.
ReadLineFrom(ls) ==
    /\ pc = "prompt"
    /\ \E l \in ls : line' = l
    /\ cwd0' = cwd
    /\ pc' = "eval"
    /\ UNCHANGED <<reason, pipelineVars, osVars, envVars, terminal, errs, result>>

\* rl.readline returns a line.
ReadLine == ReadLineFrom(Lines)

\* rl.readline fails (end of input): main returns the error.
ReadEof ==
    /\ pc = "prompt"
    /\ pc' = "terminated" /\ reason' = "eof"
    /\ UNCHANGED <<line, cwd0, pipelineVars, osVars, envVars, terminal, errs, result>>

\* Shlex::new(readline.trim()) drained; main takes the first token as com
\* and leaves the rest as args.
LineToks == Shlex(Trim(line))
Com == LineToks[1]
Args == Tail(LineToks)

\* The match arm main takes for the line.
LineCommand == command_type(paths, Com)
Single(kind) ==
    /\ pc = "eval"
    /\ ~ContainsPipe(line)
    /\ LineToks # <<>>
    /\ LineCommand.kind = kind

\* main returns with an error or panics: the interpreter ends.
Terminate(why) ==
    /\ pc' = "terminated" /\ reason' = why /\ result' = why

\* The loop body is done: back to readline.
NextLine == pc' = "read" /\ reason' = reason /\ result' = "ok"

\* input.next().context("parsing command")? on a line without a token.
EvalNoCommand ==
    /\ pc = "eval"
    /\ ~ContainsPipe(line)
    /\ LineToks = <<>>
    /\ Terminate("error")
    /\ UNCHANGED <<line, cwd0, pipelineVars, osVars, envVars, terminal, errs>>

\* Some(Command::Echo)
EvalEcho ==
    /\ Single("Echo")
    /\ LET r == Parser(Args, files)
           arg == JoinWith(r.args, " ")
       IN  IF r.panic
           THEN /\ Terminate("panic")
                /\ files' = r.files
                /\ terminal' = terminal
           ELSE /\ NextLine
                /\ IF r.stdout.open
                   THEN /\ files' = WriteFile(r.files, r.stdout, arg \o "\n")
                        /\ terminal' = terminal
                   ELSE /\ files' = r.files
                        /\ terminal' = Append(terminal, arg)
    /\ UNCHANGED <<line, cwd0, pipelineVars, osVars, cwd, paths, errs>>

\* Mutant of EvalCd: the working directory is set even when
\* set_current_dir reports an error.
EvalCdUnchecked ==
    /\ Single("Cd")
    /\ IF Args = <<>>
       THEN Terminate("error") /\ UNCHANGED <<cwd, terminal>>
       ELSE LET path == IF Args[1] = "~" THEN HomeDir ELSE Args[1]
                target == IF is_absolute(path) THEN path ELSE PathJoin(cwd, path)
            IN  /\ NextLine
                /\ cwd' = target
                /\ terminal' = IF is_dir(target) THEN terminal
                               ELSE Append(terminal,
                                      ("cd: " \o target) \o ": No such file or directory")
    /\ UNCHANGED <<line, cwd0, pipelineVars, osVars, files, paths, errs>>

\* Some(Command::Cd)
EvalCd ==
    /\ Single("Cd")
    /\ IF Args = <<>>
       THEN Terminate("error") /\ UNCHANGED <<cwd, terminal>>
       ELSE LET path == IF Args[1] = "~" THEN HomeDir ELSE Args[1]
                target == IF is_absolute(path) THEN path ELSE PathJoin(cwd, path)
            IN  /\ NextLine
                /\ IF is_dir(target)
                   THEN cwd' = target /\ terminal' = terminal
                   ELSE /\ cwd' = cwd
                        /\ terminal' = Append(terminal,
                              ("cd: " \o target) \o ": No such file or directory")
    /\ UNCHANGED <<line, cwd0, pipelineVars, osVars, files, paths, errs>>

\* Some(Command::Pwd)
EvalPwd ==
    /\ Single("Pwd")
    /\ NextLine
    /\ terminal' = Append(terminal, cwd)
    /\ UNCHANGED <<line, cwd0, pipelineVars, osVars, envVars, errs>>

\* str::parse::<usize> succeeds on these tokens.
IsNumber(tok) == tok \in {"0", "1", "2", "3"}

RECURSIVE HistoryInfoNew(_)
\* HistoryInfo::new: TRUE when every argument parses (-r with a file name
\* after it, or a number).
HistoryInfoNew(toks) ==
    IF toks = <<>> THEN TRUE
    ELSE IF Head(toks) = "-r"
         THEN Len(toks) >= 2 /\ HistoryInfoNew(SubSeq(toks, 3, Len(toks)))
    ELSE IsNumber(Head(toks)) /\ HistoryInfoNew(Tail(toks))

\* Some(Command::History). The entries are the line editor's; the listing
\* is recorded as one line on the terminal.
EvalHistory ==
    /\ Single("History")
    /\ IF ~HistoryInfoNew(Args)
       THEN Terminate("error") /\ terminal' = terminal
       ELSE /\ NextLine
            /\ terminal' = IF \E j \in 1..Len(Args) : Args[j] = "-r"
                           THEN terminal ELSE Append(terminal, "<history>")
    /\ UNCHANGED <<line, cwd0, pipelineVars, osVars, envVars, errs>>

\* The line `type name` prints, in main and in execute_builtin_in_pipeline.
TypeText(name) ==
    LET c == command_type(paths, name)
    IN  IF c.kind = "Program" THEN (name \o " is ") \o c.path
        ELSE IF c.kind = "None" THEN name \o ": not found"
        ELSE name \o " is a shell builtin"

\* Some(Command::Type)
EvalType ==
    /\ Single("Type")
    /\ IF Args = <<>>
       THEN Terminate("error") /\ terminal' = terminal
       ELSE NextLine /\ terminal' = Append(terminal, TypeText(Args[1]))
    /\ UNCHANGED <<line, cwd0, pipelineVars, osVars, envVars, errs>>

\* Some(Command::Exit) => break
EvalExit ==
    /\ Single("Exit")
    /\ pc' = "terminated" /\ reason' = "exit" /\ result' = "ok"
    /\ UNCHANGED <<line, cwd0, pipelineVars, osVars, envVars, terminal, errs>>

\* None => println!("{com}: command not found")
EvalNotFound ==
    /\ Single("None")
    /\ NextLine
    /\ terminal' = Append(terminal, Com \o ": command not found")
    /\ UNCHANGED <<line, cwd0, pipelineVars, osVars, envVars, errs>>

\* --------------------------------------------------- processes and pipes
\* std::process::Command::spawn: the new process, running. stage is the
\* pipeline stage it was spawned for (0 outside a pipeline).
NewProc(path, argv, stdin, stdout, stderr) ==
    [path |-> path, prog |-> Behaviour(path), argv |-> argv,
     stdin |-> stdin, stdout |-> stdout, stderr |-> stderr,
     stage |-> i, state |-> "running", left |-> SeqChunks]

NewPipe(readers, writers) == [buf |-> <<>>, readers |-> readers, writers |-> writers]

\* The pipes after holder h has closed every end it holds.
CloseAll(ps, h) ==
    [p \in DOMAIN ps |->
        [ps[p] EXCEPT !.readers = @ \ {h}, !.writers = @ \ {h}]]

\* The pipes after holder h has closed its read end of pipe p (p = 0: none).
CloseRead(ps, p, h) ==
    IF p = 0 THEN ps ELSE [ps EXCEPT ![p].readers = @ \ {h}]

\* Processes run while the shell is inside run_command or execute_pipeline.
Running(c) ==
    /\ pc \in {"stage", "write", "wait", "run_wait"}
    /\ c \in 1..Len(procs)
    /\ procs[c].state = "running"

\* A write to a stream fails (broken pipe) when it is a pipe without a reader.
Broken(out) == out.kind = "pipe" /\ pipes[out.pipe].readers = {}
\* A write to a stream can proceed.
Writable(out) ==
    out.kind = "pipe" => /\ pipes[out.pipe].readers # {}
                         /\ Len(pipes[out.pipe].buf) < PipeCap

\* The effect of process c writing chunk to its output.
Emit(c, chunk, ps) ==
    LET out == procs[c].stdout
    IN  /\ pipes' = IF out.kind = "pipe"
                    THEN [ps EXCEPT ![out.pipe].buf = Append(@, chunk)] ELSE ps
        /\ terminal' = IF out.kind = "tty" THEN Append(terminal, chunk) ELSE terminal
        /\ files' = IF out.kind = "file"
                    THEN [files EXCEPT ![out.name] = Append(@, chunk)] ELSE files

\* A "seq" process has a chunk left and its output takes it.
CanWrite(c) ==
    /\ Running(c)
    /\ procs[c].prog = "seq"
    /\ procs[c].left > 0
    /\ Writable(procs[c].stdout)

\* A "seq" process writes its next chunk.
ChildWrite(c) ==
    /\ CanWrite(c)
    /\ Emit(c, "n", pipes)
    /\ procs' = [procs EXCEPT ![c].left = @ - 1]
    /\ UNCHANGED <<pc, reason, line, cwd0, pipelineVars, waited, cwd, paths, errs, result>>

\* A "cat" process has input waiting and its output takes it.
CanCopy(c) ==
    /\ Running(c)
    /\ procs[c].prog = "cat"
    /\ procs[c].stdin.kind = "pipe"
    /\ pipes[procs[c].stdin.pipe].buf # <<>>
    /\ Writable(procs[c].stdout)

\* A "cat" process moves one chunk from its input pipe to its output.
ChildCopy(c) ==
    /\ CanCopy(c)
    /\ LET p == procs[c].stdin.pipe
       IN  Emit(c, Head(pipes[p].buf), [pipes EXCEPT ![p].buf = Tail(@)])
    /\ UNCHANGED <<pc, reason, line, cwd0, pipelineVars, procs, waited, cwd, paths,
                   errs, result>>

\* A process is about to exit: "true" at once, "seq" when it has written
\* everything, "cat" at end of input (a pipe that is empty and has no
\* writer; the terminal's input is taken as ended), and either of them when
\* a write meets a broken pipe.
CanExit(c) ==
    /\ Running(c)
    /\ \/ procs[c].prog = "true"
       \/ procs[c].prog = "seq" /\ procs[c].left = 0
       \/ procs[c].prog = "seq" /\ Broken(procs[c].stdout)
       \/ /\ procs[c].prog = "cat"
          /\ procs[c].stdin.kind = "pipe"
          /\ pipes[procs[c].stdin.pipe].buf = <<>>
          /\ pipes[procs[c].stdin.pipe].writers = {}
       \/ procs[c].prog = "cat" /\ procs[c].stdin.kind = "tty"
       \/ /\ procs[c].prog = "cat"
          /\ procs[c].stdin.kind = "pipe"
          /\ pipes[procs[c].stdin.pipe].buf # <<>>
          /\ Broken(procs[c].stdout)

\* A process exits. Exiting closes every pipe end the process holds.
ChildExit(c) ==
    /\ CanExit(c)
    /\ procs' = [procs EXCEPT ![c].state = "exited"]
    /\ pipes' = CloseAll(pipes, c)
    /\ UNCHANGED <<pc, reason, line, cwd0, pipelineVars, waited, envVars, terminal,
                   errs, result>>

\* ------------------------------------------------------------ run_command
\* Some(Command::Program(path)) => run_command(path, &com, Parser::new(args))?
\* up to the spawn: the arguments are drained through the Parser, the files
\* it opened become the child's stdout and stderr.
EvalProgram ==
    /\ Single("Program")
    /\ LET r == Parser(Args, files)
       IN  /\ files' = r.files
           /\ IF r.panic
              THEN Terminate("panic") /\ procs' = procs
              ELSE IF ~SpawnOk(LineCommand.path)
              THEN Terminate("error") /\ procs' = procs
              ELSE /\ pc' = "run_wait" /\ reason' = reason /\ result' = result
                   /\ procs' = Append(procs,
                         NewProc(LineCommand.path, <<Com>> \o r.args, Tty,
                                 Stream(r.stdout), Stream(r.stderr)))
    /\ UNCHANGED <<line, cwd0, pipelineVars, pipes, waited, cwd, paths, terminal, errs>>

\* run_command: child.wait() returns once the child has exited.
RunWait ==
    /\ pc = "run_wait"
    /\ procs[Len(procs)].state = "exited"
    /\ waited' = Append(waited, Len(procs))
    /\ NextLine
    /\ UNCHANGED <<line, cwd0, pipelineVars, procs, pipes, envVars, terminal, errs>>

\* ------------------------------------------------------- execute_pipeline
\* execute_pipeline returns Err(msg) to main, which prints it and goes on.
\* The locals are dropped: the Child handles without a wait, and every pipe
\* end the shell still holds is closed.
ReturnErr(msg) ==
    /\ pc' = "read" /\ reason' = reason
    /\ result' = msg
    /\ errs' = Append(errs, "Pipeline error: " \o msg)
    /\ children' = <<>>
    /\ previous_output' = NoOutput
    /\ pend' = NoPend
    /\ pipes' = CloseAll(pipes, Shell)

\* main: a line that contains '|' is split and handed to execute_pipeline.
EvalPipeline ==
    /\ pc = "eval"
    /\ ContainsPipe(line)
    /\ commands' = SplitCommands(line)
    /\ IF Len(commands') < 2
       THEN /\ ReturnErr("Pipeline must have at least 2 commands")
            /\ i' = i
       ELSE /\ pc' = "stage" /\ reason' = reason /\ result' = result
            /\ i' = 1
            /\ children' = <<>>
            /\ previous_output' = NoOutput
            /\ pend' = NoPend
            /\ UNCHANGED <<errs, pipes>>
    /\ UNCHANGED <<line, cwd0, k, procs, waited, envVars, terminal>>

\* The stage the for loop is at: its tokens, command name and arguments.
StageToks == Shlex(commands[i])
StageCom == StageToks[1]
\* A stage's arguments are the tokens Shlex yields after the command name.
StageArgs == Tail(StageToks)
StageCommand == command_type(paths, StageCom)
is_last == i = Len(commands)

AtStage ==
    /\ pc = "stage"
    /\ i <= Len(commands)

\* The for loop moves to the next stage, or to the wait loop after the last.
Advance ==
    /\ i' = i + 1
    /\ reason' = reason /\ result' = result
    /\ IF is_last
       THEN pc' = "wait" /\ k' = Len(children')
       ELSE pc' = "stage" /\ k' = k

\* input.next().context("parsing command")? on a segment without a token.
StageNoCommand ==
    /\ AtStage
    /\ StageToks = <<>>
    /\ ReturnErr("parsing command")
    /\ UNCHANGED <<line, cwd0, commands, i, k, procs, waited, envVars, terminal>>

\* execute_builtin_in_pipeline: the text the built-in produces ("" for a
\* type without an argument).
BuiltinText(com, args) ==
    CASE com = "echo" -> JoinWith(args, " ")
      [] com = "type" -> IF args = <<>> THEN "" ELSE TypeText(args[1])
      [] com = "pwd" -> cwd

BuiltinPrints(com, args) == ~(com = "type" /\ args = <<>>)

\* Mutant of StageBuiltin: the built-in prints its text whether or not a
\* later stage takes it.
StageBuiltinAlwaysPrints ==
    /\ AtStage
    /\ StageToks # <<>>
    /\ StageCommand.kind \in {"Echo", "Type", "Pwd"}
    /\ LET text == BuiltinText(StageCom, StageArgs)
           prints == BuiltinPrints(StageCom, StageArgs)
       IN  /\ terminal' = IF prints THEN Append(terminal, text) ELSE terminal
           /\ IF is_last
              THEN UNCHANGED <<previous_output, pipes>>
              ELSE /\ previous_output' = Buffer(IF prints THEN text \o "\n" ELSE "")
                   /\ pipes' = CloseRead(pipes, previous_output.pipe, Shell)
    /\ children' = children
    /\ Advance
    /\ UNCHANGED <<line, cwd0, commands, pend, procs, waited, envVars, errs>>

\* Some(Command::Echo) | Some(Command::Type) | Some(Command::Pwd): printed
\* when last, else buffered as the next stage's input. Assigning the buffer
\* drops the previous stage's output stream.
StageBuiltin ==
    /\ AtStage
    /\ StageToks # <<>>
    /\ StageCommand.kind \in {"Echo", "Type", "Pwd"}
    /\ LET text == BuiltinText(StageCom, StageArgs)
           prints == BuiltinPrints(StageCom, StageArgs)
       IN  IF is_last
           THEN /\ terminal' = IF prints THEN Append(terminal, text) ELSE terminal
                /\ UNCHANGED <<previous_output, pipes>>
           ELSE /\ terminal' = terminal
                /\ previous_output' = Buffer(IF prints THEN text \o "\n" ELSE "")
                /\ pipes' = CloseRead(pipes, previous_output.pipe, Shell)
    /\ children' = children
    /\ Advance
    /\ UNCHANGED <<line, cwd0, commands, pend, procs, waited, envVars, errs>>

\* Mutant of StageDisallowed: the stage is passed over instead of ending
\* the pipeline.
StageDisallowedSkipped ==
    /\ AtStage
    /\ StageToks # <<>>
    /\ StageCommand.kind \in {"Cd", "History", "Exit"}
    /\ children' = children
    /\ Advance
    /\ UNCHANGED <<line, cwd0, commands, previous_output, pend, procs, pipes, waited,
                   envVars, terminal, errs>>

\* Some(Command::Cd) | Some(Command::History) | Some(Command::Exit)
StageDisallowed ==
    /\ AtStage
    /\ StageToks # <<>>
    /\ StageCommand.kind \in {"Cd", "History", "Exit"}
    /\ ReturnErr(StageCom \o " cannot be used in pipelines")
    /\ UNCHANGED <<line, cwd0, commands, i, k, procs, waited, envVars, terminal>>

\* None => bail!("{}: command not found", com)
StageNotFound ==
    /\ AtStage
    /\ StageToks # <<>>
    /\ StageCommand.kind = "None"
    /\ ReturnErr(StageCom \o ": command not found")
    /\ UNCHANGED <<line, cwd0, commands, i, k, procs, waited, envVars, terminal>>

\* The child's stdout and the shell's handle on it: the terminal for the
\* last stage, else a new pipe whose read end the shell holds.
StageStdout(q) == IF is_last THEN Tty ELSE PipeEnd(q)
\* Mutant of StageHandoff: the child's output stream is not kept for the
\* next stage.
StageHandoffDropped(q) == NoOutput
StageHandoff(q) == IF is_last THEN NoOutput ELSE ChildStdout(q)

\* Some(Command::Program(path)) when the previous output is None or a live
\* ChildStdout: the child is spawned with that stream as its stdin. The
\* Command owning the stream is dropped at the end of the iteration, so the
\* shell's copy of the read end is closed then.
StageSpawn ==
    /\ AtStage
    /\ StageToks # <<>>
    /\ StageCommand.kind = "Program"
    /\ previous_output.kind # "Buffer"
    /\ IF ~SpawnOk(StageCommand.path)
       THEN /\ ReturnErr("spawn process " \o ToString(i - 1))
            /\ UNCHANGED <<i, k, procs>>
       ELSE LET c == Len(procs) + 1
                q == Len(pipes) + 1
                stdin == IF previous_output.kind = "ChildStdout"
                         THEN PipeEnd(previous_output.pipe) ELSE Tty
                handed == IF stdin.kind = "pipe"
                          THEN [pipes EXCEPT ![stdin.pipe].readers =
                                                (@ \ {Shell}) \cup {c}]
                          ELSE pipes
            IN  /\ procs' = Append(procs,
                       NewProc(StageCommand.path, <<StageCom>> \o StageArgs,
                               stdin, StageStdout(q), Tty))
                /\ pipes' = IF is_last THEN handed
                            ELSE Append(handed, NewPipe({Shell}, {c}))
                /\ previous_output' = StageHandoff(q)
                /\ children' = Append(children, c)
                /\ Advance
                /\ UNCHANGED <<pend, errs>>
    /\ UNCHANGED <<line, cwd0, commands, waited, envVars, terminal>>

\* Some(Command::Program(path)) when the previous output is a Buffer: the
\* child is spawned with a new pipe as stdin, whose write end the shell
\* holds until it has written the buffer.
StageSpawnBuffered ==
    /\ AtStage
    /\ StageToks # <<>>
    /\ StageCommand.kind = "Program"
    /\ previous_output.kind = "Buffer"
    /\ IF ~SpawnOk(StageCommand.path)
       THEN /\ ReturnErr("spawn process " \o ToString(i - 1))
            /\ UNCHANGED procs
       ELSE LET c == Len(procs) + 1
                s == Len(pipes) + 1
                q == Len(pipes) + 2
            IN  /\ procs' = Append(procs,
                       NewProc(StageCommand.path, <<StageCom>> \o StageArgs,
                               PipeEnd(s), StageStdout(q), Tty))
                /\ pipes' = IF is_last
                            THEN Append(pipes, NewPipe({c}, {Shell}))
                            ELSE Append(Append(pipes, NewPipe({c}, {Shell})),
                                        NewPipe({Shell}, {c}))
                /\ previous_output' = NoOutput
                /\ pend' = [child |-> c, content |-> previous_output.content]
                /\ pc' = "write" /\ reason' = reason /\ result' = result
                /\ UNCHANGED <<children, errs>>
    /\ UNCHANGED <<line, cwd0, commands, i, k, waited, envVars, terminal>>

\* write_all meets a broken pipe: there is text to write and the child's
\* stdin has no reader left.
WriteBroken ==
    /\ pend.content # ""
    /\ pipes[procs[pend.child].stdin.pipe].readers = {}

\* write_all returns: with an error, or because there is nothing to write
\* or the pipe has room for the text.
WriteReturns ==
    \/ WriteBroken
    \/ pend.content = ""
    \/ Len(pipes[procs[pend.child].stdin.pipe].buf) < PipeCap

\* Mutant of WriteBuffer: the shell keeps its write end of the child's
\* stdin after the write.
WriteBufferKeepingEnd ==
    /\ pc = "write"
    /\ WriteReturns
    /\ LET c == pend.child
           s == procs[c].stdin.pipe
           out == procs[c].stdout
       IN  IF WriteBroken
           THEN /\ ReturnErr("Broken pipe (os error 32)")
                /\ UNCHANGED <<i, k>>
           ELSE /\ pipes' = [pipes EXCEPT
                       ![s].buf = IF pend.content = "" THEN @
                                  ELSE Append(@, pend.content)]
                /\ previous_output' = IF out.kind = "pipe"
                                      THEN ChildStdout(out.pipe) ELSE NoOutput
                /\ children' = Append(children, c)
                /\ pend' = NoPend
                /\ Advance
                /\ errs' = errs
    /\ UNCHANGED <<line, cwd0, commands, procs, waited, envVars, terminal>>

\* stdin.write_all(content.as_bytes())? and the rest of the iteration. An
\* empty buffer is written without a system call. The write fails when the
\* child has exited (no reader is left); the error is returned with `?`.
\* After the write the shell's write end is dropped.
WriteBuffer ==
    /\ pc = "write"
    /\ WriteReturns
    /\ LET c == pend.child
           s == procs[c].stdin.pipe
           out == procs[c].stdout
       IN  IF WriteBroken
           THEN /\ ReturnErr("Broken pipe (os error 32)")
                /\ UNCHANGED <<i, k>>
           ELSE /\ pipes' = [pipes EXCEPT
                       ![s].buf = IF pend.content = "" THEN @
                                  ELSE Append(@, pend.content),
                       ![s].writers = @ \ {Shell}]
                /\ previous_output' = IF out.kind = "pipe"
                                      THEN ChildStdout(out.pipe) ELSE NoOutput
                /\ children' = Append(children, c)
                /\ pend' = NoPend
                /\ Advance
                /\ errs' = errs
    /\ UNCHANGED <<line, cwd0, commands, procs, waited, envVars, terminal>>

\* Mutant of WaitTarget: the loop without .rev(), first child first.
WaitTargetForward == children[Len(children) + 1 - k]

\* children.iter_mut().rev(): the child the wait loop is at, k running from
\* Len(children) down to 1.
WaitTarget == children[k]

\* child.wait() returns once the child has exited.
WaitReturns == procs[WaitTarget].state = "exited"

\* for child in children.iter_mut().rev() { child.wait()? }
Wait ==
    /\ pc = "wait"
    /\ k >= 1
    /\ WaitReturns
    /\ waited' = Append(waited, WaitTarget)
    /\ k' = k - 1
    /\ UNCHANGED <<pc, reason, line, cwd0, commands, i, children, previous_output, pend,
                   procs, pipes, envVars, terminal, errs, result>>

\* Ok(()) after the wait loop; the locals are dropped.
PipelineReturn ==
    /\ pc = "wait"
    /\ k = 0
    /\ NextLine
    /\ children' = <<>>
    /\ previous_output' = NoOutput
    /\ pipes' = CloseAll(pipes, Shell)
    /\ UNCHANGED <<line, cwd0, commands, i, pend, k, procs, waited, envVars, terminal,
                   errs>>

\* ------------------------------------------------------- the specification
Next ==
    \/ Prompt
    \/ ReadLine
    \/ ReadEof
    \/ EvalNoCommand
    \/ EvalEcho
    \/ EvalCd
    \/ EvalPwd
    \/ EvalHistory
    \/ EvalType
    \/ EvalExit
    \/ EvalNotFound
    \/ EvalProgram
    \/ RunWait
    \/ EvalPipeline
    \/ StageNoCommand
    \/ StageBuiltin
    \/ StageDisallowed
    \/ StageNotFound
    \/ StageSpawn
    \/ StageSpawnBuffered
    \/ WriteBuffer
    \/ Wait
    \/ PipelineReturn
    \/ \E c \in 1..Len(procs) : ChildWrite(c)
    \/ \E c \in 1..Len(procs) : ChildCopy(c)
    \/ \E c \in 1..Len(procs) : ChildExit(c)

Spec == Init /\ [][Next]_vars


\* -------------------------------------------------------------- properties
\* How many times wait() has returned for process c.
WaitCount(c) == Cardinality({j \in DOMAIN waited : waited[j] = c})

\* The pipeline segments of the current line.
Segs == IF ContainsPipe(line) THEN SplitCommands(line) ELSE <<>>
SegToks(j) == Shlex(Segs[j])
\* What a segment's text resolves to: "Empty" without a token, else the kind
\* of its command.
KindOf(seg) ==
    LET t == Shlex(seg)
    IN  IF t = <<>> THEN "Empty" ELSE command_type(paths, t[1]).kind
SegKind(j) == KindOf(Segs[j])
\* The kinds of the segments of the current line, in order.
SegKinds == LET segs == Segs IN [j \in DOMAIN segs |-> KindOf(segs[j])]

\* C1: when control is back at the top of the loop, every process spawned
\* for the line has been waited on exactly once.
C1_EverySpawnedReapedOnce ==
    pc = "read" => \A c \in DOMAIN procs : WaitCount(c) = 1

\* C2: the interpreter ends only on `exit` or on end of input.
C2_OnlyExitTerminates ==
    pc = "terminated" =>
        \/ reason = "eof"
        \/ reason = "exit" /\ LineToks # <<>> /\ Com = "exit"

\* The shell's next step inside execute_pipeline does not block.
ShellCanStep ==
    \/ pc = "stage"
    \/ pc = "write" /\ WriteReturns
    \/ pc = "wait" /\ (k = 0 \/ WaitReturns)

\* C3: execute_pipeline never deadlocks: while it runs, the shell or one of
\* the processes can always take a step, so it eventually returns.
C3_PipelineNeverStuck ==
    pc \in {"stage", "write", "wait"} =>
        \/ ShellCanStep
        \/ \E c \in DOMAIN procs : CanWrite(c) \/ CanCopy(c) \/ CanExit(c)

\* C4: no wait begins before every stage has been launched (each external
\* stage has its process), and the waits return in the reverse of the spawn
\* order, so that on normal completion the wait order is exactly the spawn
\* order reversed.
C4_ReverseWaitOrder ==
    LET n == Len(procs)
        kinds == SegKinds
        external == {j \in DOMAIN kinds : kinds[j] = "Program"}
    IN  /\ pc = "wait" =>
              /\ i = Len(commands) + 1
              /\ {procs[c].stage : c \in DOMAIN procs} = external
              /\ n = Cardinality(external)
              /\ \A c \in 1..(n - 1) : procs[c].stage < procs[c + 1].stage
              /\ waited = [j \in 1..(n - k) |-> n + 1 - j]
        /\ (pc = "read" /\ result = "ok" /\ ContainsPipe(line)) =>
              waited = [j \in 1..n |-> n + 1 - j]

\* A pipeline of three external stages has completed normally.
C4_Witness ==
    /\ pc = "read" /\ result = "ok"
    /\ Len(Segs) = 3 /\ Len(waited) = 3

\* C5: a buffered write that meets a broken pipe (the consumer has exited)
\* does not end the pipeline: the shell goes on to the next stage or to the
\* wait loop, the consumer is recorded among the children, and no error is
\* reported.
C5_BrokenWriteIsNonFatal ==
    [][ ( /\ pc = "write" /\ pc' # "write"
          /\ pend.content # ""
          /\ pipes[procs[pend.child].stdin.pipe].readers = {} )
        => ( /\ pc' \in {"stage", "wait"}
             /\ children' = Append(children, pend.child)
             /\ errs' = errs ) ]_vars

\* The kinds of command execute_pipeline refuses: cd, history, exit, and a
\* name that resolves to nothing.
RefusedKinds == {"Cd", "History", "Exit", "None"}
\* The error text for refused segment j.
RefusalText(j) ==
    IF SegKind(j) = "None" THEN SegToks(j)[1] \o ": command not found"
    ELSE SegToks(j)[1] \o " cannot be used in pipelines"

\* C6: when a pipeline has a stage that is cd, history, exit or an unresolved
\* name, no process is ever spawned for that stage or a later one, the wait
\* loop is never reached and execute_pipeline returns an error; when the
\* stage loop reaches that stage the error names its command; the working
\* directory stays what it was when the line was read and the interpreter
\* does not end.
C6_RefusedStageAbortsPipeline ==
    LET kinds == SegKinds
    IN  \A j \in DOMAIN kinds : kinds[j] \in RefusedKinds =>
        /\ \A c \in DOMAIN procs : procs[c].stage < j
        /\ i <= j
        /\ pc \notin {"wait", "terminated"}
        /\ cwd = cwd0
        /\ pc = "read" => result # "ok" /\ errs # <<>>
        /\ (pc = "read" /\ i = j) =>
              /\ result = RefusalText(j)
              /\ errs = <<"Pipeline error: " \o RefusalText(j)>>

\* `cat | cd /tmp | ...` has returned: cat was spawned, the pipeline ended
\* at the cd stage.
C6_Witness ==
    /\ pc = "read"
    /\ Len(Segs) = 3 /\ SegKind(2) = "Cd" /\ i = 2
    /\ Len(procs) = 1
    /\ result = "cd cannot be used in pipelines"

\* What redirection extraction is to give for the argument tokens of a
\* command: every operator and the token after it are taken out, the target
\* recorded for its stream (the last one wins), the other tokens kept in
\* order. dangling: an operator is the last token.
RECURSIVE Extract(_, _)
Extract(toks, acc) ==
    IF toks = <<>> THEN acc
    ELSE IF Head(toks) \in RedirOps THEN
        IF Len(toks) = 1 THEN [acc EXCEPT !.dangling = TRUE]
        ELSE Extract(SubSeq(toks, 3, Len(toks)),
                     IF Head(toks) \in StdoutOps
                     THEN [acc EXCEPT !.out = toks[2]]
                     ELSE [acc EXCEPT !.err = toks[2]])
    ELSE Extract(Tail(toks), [acc EXCEPT !.args = Append(@, Head(toks))])

Extracted(toks) ==
    Extract(toks, [args |-> <<>>, out |-> "", err |-> "", dangling |-> FALSE])

StreamTo(name) == IF name = "" THEN Tty ELSE [kind |-> "file", pipe |-> 0, name |-> name]

\* The current line is a single command with argument tokens.
SingleCommand == LineToks # <<>> /\ ~ContainsPipe(line)

\* C7: the arguments a single external command is spawned with are exactly
\* the non-operator, non-target tokens in order, and its stdout and stderr
\* are the recorded targets; echo prints exactly those arguments.
C7_ArgsAreNonRedirectionTokens ==
    (SingleCommand /\ ~Extracted(Args).dangling) =>
        LET e == Extracted(Args)
        IN  /\ pc = "run_wait" =>
                  /\ procs[1].argv = <<Com>> \o e.args
                  /\ procs[1].stdout = StreamTo(e.out)
                  /\ procs[1].stderr = StreamTo(e.err)
            /\ (pc = "read" /\ Com = "echo" /\ e.out = "") =>
                  terminal = <<JoinWith(e.args, " ")>>

\* C8: a single command whose last token is a redirection operator without
\* a target is not executed: nothing is spawned, echo prints nothing, a
\* message is reported and the interpreter goes on.
C8_MissingTargetRejected ==
    (SingleCommand /\ LineCommand.kind \in {"Echo", "Program"}
                   /\ Extracted(Args).dangling) =>
        /\ procs = <<>>
        /\ pc # "terminated"
        /\ pc = "read" => terminal = <<>> /\ errs # <<>>

\* C9: in a pipeline every process is spawned with the redirection-stripped
\* tokens of its stage, the text an echo stage hands on is made of the
\* stripped tokens, and the target of a launched stage has been opened.
C9_StageArgsStripped ==
    /\ \A c \in DOMAIN procs : procs[c].stage >= 1 =>
          procs[c].argv = <<SegToks(procs[c].stage)[1]>>
                          \o Extracted(Tail(SegToks(procs[c].stage))).args
    /\ (pc = "stage" /\ i >= 2 /\ SegKind(i - 1) = "Echo") =>
          /\ previous_output =
                Buffer(JoinWith(Extracted(Tail(SegToks(i - 1))).args, " ") \o "\n")
          /\ Extracted(Tail(SegToks(i - 1))).out # "" =>
                Extracted(Tail(SegToks(i - 1))).out \in DOMAIN files

\* The number of | characters in a text.
RECURSIVE CountPipes(_)
CountPipes(s) ==
    IF s = <<>> THEN 0
    ELSE (IF Head(s) = "|" THEN 1 ELSE 0) + CountPipes(Tail(s))

\* C10: a line is split at every | into trimmed segments ("cat | seq | seq"
\* gives [cat, seq, seq]), and a line with an empty side of a | is rejected
\* as a too-short pipeline before any stage is executed or process spawned.
C10_SplitAndTooShort ==
    /\ pc = "stage" =>
          /\ Len(commands) = CountPipes(line) + 1
          /\ \A j \in DOMAIN commands :
                commands[j] = Trim(commands[j]) /\ ~ContainsPipe(commands[j])
          /\ line = JoinPipe(<<<<"cat">>, <<"seq">>, <<"seq">>>>) =>
                commands = <<<<"cat">>, <<"seq">>, <<"seq">>>>
    /\ (\E j \in DOMAIN Segs : Segs[j] = <<>>) =>
          /\ procs = <<>>
          /\ terminal = <<>>
          /\ pc = "read" => result # "ok"


\* ------------------------------------------------ command_type under PATH
\* Longest PATH (number of entries) the environment offers.
MaxPath == 2

\* What a PATH entry may be: directories, one that cannot be listed, the
\* root (a path without a file name), a program file and a missing path.
PathEntries == {"/bin", "/usr", "/locked", "/", "/bin/cat", "/nodir"}
PathLists == UNION { [1..n -> PathEntries] : n \in 0..MaxPath }

\* The names `type` is asked about.
TypeNames == {"cat", "seq", "true", "bin", "nosuch", "cd", "echo"}
TypeLines == { Words(<<"type", n>>) : n \in TypeNames }

\* The shell started under any of the PATH values, answering `type` lines.
InitPath == \E ps \in PathLists : InitEnv(ps)
NextPath ==
    \/ Prompt
    \/ ReadLineFrom(TypeLines)
    \/ EvalType
SpecPath == InitPath /\ [][NextPath]_vars

\* A `type name` line has been answered.
TypeAnswered ==
    /\ pc = "read" /\ result = "ok"
    /\ Len(LineToks) = 2 /\ Com = "type"

\* What one PATH entry offers for com, "" when nothing: the first matching
\* executable of a directory that can be listed, or the entry itself when it
\* is executable and named com.
EntryOffer(path, com) ==
    LET hit == IF is_dir(path) /\ FS[path].listable
               THEN FirstMatch(FS[path].entries, com) ELSE ""
    IN  IF hit # "" THEN hit
        ELSE IF is_executable(path) /\ FS[path].name = com THEN path
        ELSE ""

RECURSIVE FirstOffer(_, _)
\* The offer of the first PATH entry that has one, entries taken in list
\* order; an entry without an offer is passed over.
FirstOffer(ps, com) ==
    IF ps = <<>> THEN ""
    ELSE IF EntryOffer(Head(ps), com) # "" THEN EntryOffer(Head(ps), com)
    ELSE FirstOffer(Tail(ps), com)

\* C11: a built-in name resolves to the built-in whatever PATH holds; any
\* other name resolves to the first match when the PATH entries are scanned
\* in order, and to not-found only when no entry has a match: an earlier
\* entry that cannot be read or has no match does not hide a later match.
C11_BuiltinsThenFirstPathMatch ==
    TypeAnswered =>
        LET name == Args[1]
            hit == FirstOffer(paths, name)
        IN  terminal =
              << IF name \in Builtins THEN name \o " is a shell builtin"
                 ELSE IF hit # "" THEN (name \o " is ") \o hit
                 ELSE name \o ": not found" >>

\* C18: a name resolved to an external program is given the path of an
\* executable file named like the command, never a directory (not a
\* directory inside a PATH entry, nor a PATH entry that is a directory).
C18_ProgramIsExecutableFile ==
    TypeAnswered =>
        LET name == Args[1]
            c == command_type(paths, name)
        IN  c.kind = "Program" =>
              /\ terminal = <<(name \o " is ") \o c.path>>
              /\ is_executable(c.path)
              /\ FS[c.path].stem = name
              /\ ~is_dir(c.path)

\* ------------------------------------------------------ working directory
\* The line is a single-command cd with a path argument.
SingleCd ==
    /\ ~ContainsPipe(line)
    /\ Len(LineToks) >= 2 /\ Com = "cd"

\* The directory that cd line asks for, seen from where the line was read.
CdTarget ==
    LET path == IF Args[1] = "~" THEN HomeDir ELSE Args[1]
    IN  IF is_absolute(path) THEN path ELSE PathJoin(cwd0, path)

\* C12: the working directory differs from what it was when the line was
\* read only after a single-command cd to an existing directory, which it
\* then is; a cd whose target does not exist prints
\* "cd: <path>: No such file or directory", leaves the working directory
\* alone and the loop goes on to the next line.
C12_OnlySuccessfulCdMovesCwd ==
    /\ cwd # cwd0 =>
          /\ SingleCd
          /\ pc = "read" /\ result = "ok"
          /\ CdTarget \in {"/", "/tmp", "/bin", "/usr", "/locked"}
          /\ cwd = CdTarget
    /\ (SingleCd /\ CdTarget \notin DOMAIN FS) =>
          /\ cwd = cwd0
          /\ pc # "terminated"
          /\ pc = "read" =>
                /\ result = "ok"
                /\ terminal = <<("cd: " \o CdTarget) \o ": No such file or directory">>

\* After a cd to /tmp, `cd /nodir` has been answered with the message.
C12_Witness ==
    /\ pc = "read" /\ SingleCd
    /\ cwd0 = "/tmp" /\ cwd = "/tmp"
    /\ terminal = <<"cd: /nodir: No such file or directory">>

\* ------------------------------------------- text built-ins in pipelines
\* Pipelines made of the text built-ins and of programs that read their
\* input (cat) or ignore it (true), run from either directory.
BuiltinSegments ==
    {<<"echo", "hi">>, <<"pwd">>, <<"type", "cat">>, <<"type">>, <<"cat">>,
     <<"true">>}
BuiltinLines ==
    { Words(w) : w \in {<<"cd", "/tmp">>, <<"cd", "/">>} } \cup
    UNION { { JoinPipe(ss) : ss \in [1..n -> BuiltinSegments] } : n \in 2..MaxStages }

NextBuiltins ==
    \/ Prompt
    \/ ReadLineFrom(BuiltinLines)
    \/ EvalCd
    \/ EvalPipeline
    \/ StageBuiltin
    \/ StageSpawn
    \/ StageSpawnBuffered
    \/ WriteBuffer
    \/ Wait
    \/ PipelineReturn
    \/ \E c \in 1..Len(procs) : ChildCopy(c)
    \/ \E c \in 1..Len(procs) : ChildExit(c)
SpecBuiltins == Init /\ [][NextBuiltins]_vars

TextKinds == {"Echo", "Type", "Pwd"}
\* What the built-in of segment j prints as a last stage (nothing for a
\* type without a name), and what it leaves in the buffer otherwise.
SegPrinted(j) ==
    LET t == SegToks(j)
    IN  IF BuiltinPrints(t[1], Tail(t)) THEN <<BuiltinText(t[1], Tail(t))>> ELSE <<>>
SegBuffered(j) ==
    LET t == SegToks(j)
    IN  IF BuiltinPrints(t[1], Tail(t)) THEN BuiltinText(t[1], Tail(t)) \o "\n" ELSE ""

\* C13: in a pipeline nothing reaches the terminal before the last stage
\* runs, so a text built-in that is not last prints nothing; its text is in
\* the buffer when the next stage starts; an external stage right after it
\* has a pipe of its own as input, into which only the shell writes, once,
\* that text; a text built-in as the last stage prints its text, once.
\* When a built-in is followed only by stages that copy their input (cat)
\* and the pipeline succeeds, the text is on the terminal exactly once; it
\* does succeed when every external stage reads its input.
C13_BuiltinTextBufferedOrPrinted ==
    LET kinds == SegKinds
        n == Len(kinds)
    IN  n >= 2 =>
        /\ (pc \in {"stage", "write"} /\ i < n) \/ (pc = "stage" /\ i = n)
              => terminal = <<>>
        /\ \A j \in 1..(n - 1) :
              (kinds[j] \in TextKinds /\ pc = "stage" /\ i = j + 1)
                  => previous_output = Buffer(SegBuffered(j))
        /\ \A c \in DOMAIN procs :
              (procs[c].stage >= 2 /\ kinds[procs[c].stage - 1] \in TextKinds) =>
                  LET writing == pc = "write" /\ pend.child = c
                      text == SegBuffered(procs[c].stage - 1)
                  IN  /\ procs[c].stdin.kind = "pipe"
                      /\ pipes[procs[c].stdin.pipe].writers =
                            (IF writing THEN {Shell} ELSE {})
                      /\ \A d \in DOMAIN procs :
                            procs[d].stdout # procs[c].stdin
                      /\ pipes[procs[c].stdin.pipe].buf \in {<<>>, <<text>>}
                      /\ writing =>
                            /\ pend.content = text
                            /\ pipes[procs[c].stdin.pipe].buf = <<>>
        /\ (pc = "read" /\ result = "ok" /\ kinds[n] \in TextKinds)
              => terminal = SegPrinted(n)
        /\ \A j \in 1..(n - 1) :
              (/\ pc = "read" /\ result = "ok"
               /\ kinds[j] \in TextKinds
               /\ \A m \in (j + 1)..n : SegToks(m) = <<"cat">>)
                  => terminal = (IF SegBuffered(j) = "" THEN <<>>
                                 ELSE <<SegBuffered(j)>>)
        /\ (pc = "read" /\ \A m \in 1..n : SegToks(m) # <<"true">>)
              => result = "ok"

\* `echo hi | cat` is done: cat was waited for and hi is on the terminal.
C13_Witness ==
    /\ pc = "read" /\ result = "ok"
    /\ line = JoinPipe(<<<<"echo", "hi">>, <<"cat">>>>)
    /\ waited = <<1>>
    /\ terminal = <<"hi\n">>

\* ------------------------------------------------- echo into a file
\* Most lines a file grows to before only truncating lines are offered.
MaxFileLines == 2

\* echo lines with one stdout redirection: the operator and its target
\* after the arguments, before them, between them, or alone.
EchoLines ==
    { Words(w) : w \in UNION { {<<"echo", "hi", op, t>>, <<"echo", "a", "b", op, t>>,
                                <<"echo", op, t, "hi">>, <<"echo", "a", op, t, "b">>,
                                <<"echo", op, t>>}
                               : <<op, t>> \in StdoutOps \X {"out", "log"} } }

\* The echo lines offered now: all of them while every file has room.
EchoLinesNow ==
    IF \A f \in DOMAIN files : Len(files[f]) < MaxFileLines THEN EchoLines
    ELSE { l \in EchoLines : \A p \in 1..Len(l) : l[p] \notin AppendOps }

NextEcho ==
    \/ Prompt
    \/ ReadLineFrom(EchoLinesNow)
    \/ EvalEcho
SpecEcho == Init /\ [][NextEcho]_vars

\* The line is a single echo whose arguments hold exactly one redirection
\* operator, a stdout one, with a target after it.
EchoToFile ==
    /\ SingleCommand /\ Com = "echo"
    /\ Cardinality({p \in 1..Len(Args) : Args[p] \in RedirOps}) = 1
    /\ \E p \in 1..(Len(Args) - 1) : Args[p] \in StdoutOps
\* Where that operator is among the arguments.
EchoOpAt == CHOOSE p \in 1..Len(Args) : Args[p] \in RedirOps
\* The echoed line: the other arguments joined by single spaces, and newline.
EchoedLine ==
    JoinWith(SubSeq(Args, 1, EchoOpAt - 1) \o SubSeq(Args, EchoOpAt + 2, Len(Args)),
             " ") \o "\n"

\* C14: evaluating an echo line with a stdout redirection leaves in the
\* target exactly the echoed line (> and 1>), or what the target held
\* before followed by the echoed line (>> and 1>>, the file created when
\* absent); the other files and the terminal are left as they were.
C14_EchoWritesTarget ==
    [][ (pc = "eval" /\ EchoToFile) =>
          LET target == Args[EchoOpAt + 1]
              before == IF Args[EchoOpAt] \in AppendOps /\ target \in DOMAIN files
                        THEN files[target] ELSE <<>>
          IN  /\ pc' = "read" /\ result' = "ok"
              /\ files' = [f \in DOMAIN files \cup {target} |->
                             IF f = target THEN Append(before, EchoedLine)
                             ELSE files[f]]
              /\ terminal' = <<>> ]_vars

\* An appending echo has added its line to a file that held another.
C14_Witness ==
    /\ pc = "read" /\ result = "ok"
    /\ line = Words(<<"echo", "a", "b", ">>", "out">>)
    /\ "out" \in DOMAIN files
    /\ files["out"] = <<"hi\n", "a b\n">>

\* ------------------------------------------------------ unterminated quote
\* C15: a line with an unterminated quote is abandoned: no process is
\* spawned and no built-in prints for it, a message is reported and the
\* loop goes on to the next line.
C15_UnterminatedQuoteAbandonsLine ==
    (line # <<>> /\ ~ContainsPipe(line) /\ ~ShlexOk(Trim(line))) =>
        /\ procs = <<>>
        /\ terminal = <<>>
        /\ pc # "terminated"
        /\ pc = "read" => errs # <<>>

\* ------------------------------------------------------- the tokenizer
\* Longest text (in atoms) the line source offers after `echo `.
MaxText == 4

\* The characters texts are made of: a letter, the space, both quotes and
\* the backslash.
TextAtoms == {"a", " ", "'", "\"", "\\"}
Texts == UNION { [1..n -> TextAtoms] : n \in 0..MaxText }

\* The text of test_parser: arg1 'arg2' arg3 'ar''g''4'
TestText ==
    <<"arg1", " ", "'", "arg2", "'", " ", "arg3", " ",
      "'", "ar", "'", "'", "g", "'", "'", "4", "'">>

\* echo lines over every text: echo prints the tokens of the text joined by
\* single spaces.
TokenLines == { <<"echo", " ">> \o t : t \in Texts \cup {TestText} }

NextTokens ==
    \/ Prompt
    \/ ReadLineFrom(TokenLines)
    \/ EvalEcho
SpecTokens == Init /\ [][NextTokens]_vars

\* The characters of a string, one atom each.
Chars(str) == [p \in 1..Len(str) |-> SubSeq(str, p, p)]

\* echo has printed the tokens of a line whose quotes are balanced.
EchoedBalanced ==
    /\ pc = "read" /\ result = "ok"
    /\ ShlexOk(Trim(line))
    /\ Len(terminal) = 1

\* C16: for a line with balanced quotes, tokenizing what the tokens joined
\* by single spaces give yields the tokens again.
C16_TokenizeJoinRoundTrip ==
    EchoedBalanced => Shlex(Chars(terminal[1])) = Args

RECURSIVE RefTokens(_, _, _, _, _)
\* Tokens by the rule of the claim alone, for text without a backslash:
\* whitespace outside quotes separates, quote delimiters are dropped, what
\* touches is one token. quote is the open quote ("" outside), cur the
\* token so far, open whether a token has begun.
RefTokens(s, quote, cur, open, acc) ==
    IF s = <<>> THEN (IF open THEN Append(acc, cur) ELSE acc)
    ELSE LET c == Head(s)
         IN  IF quote = "" /\ c \in {"'", "\""}
                 THEN RefTokens(Tail(s), c, cur, TRUE, acc)
             ELSE IF quote # "" /\ c = quote
                 THEN RefTokens(Tail(s), "", cur, TRUE, acc)
             ELSE IF quote = "" /\ IsSpace(c)
                 THEN RefTokens(Tail(s), "", "", FALSE,
                                IF open THEN Append(acc, cur) ELSE acc)
             ELSE RefTokens(Tail(s), quote, cur \o c, TRUE, acc)

\* C17: for a line with balanced quotes and no backslash the tokens are
\* the whitespace-separated words with the quote delimiters removed,
\* touching quoted and unquoted runs forming one token; the text of
\* test_parser gives exactly arg1, arg2, arg3, arg4.
C17_QuotesAndWhitespace ==
    EchoedBalanced =>
        /\ (\A p \in 1..Len(line) : line[p] # "\\")
              => LineToks = RefTokens(line, "", "", FALSE, <<>>)
        /\ line = <<"echo", " ">> \o TestText
              => /\ Args = <<"arg1", "arg2", "arg3", "arg4">>
                 /\ terminal = <<"arg1 arg2 arg3 arg4">>

\* echo has answered the text of test_parser.
C17_Witness ==
    /\ pc = "read" /\ result = "ok"
    /\ line = <<"echo", " ">> \o TestText
    /\ terminal = <<"arg1 arg2 arg3 arg4">>

\* ---------------------------------------------------- wiring of the stages
\* C19: the processes of a pipeline are spawned in stage order, one per
\* external stage; the first stage reads the terminal; a later external
\* stage reads, from its spawn on, the pipe the stage before it writes to
\* (an external stage) or a pipe of its own that only the shell writes the
\* built-in's text to (a text built-in); only the last stage writes to the
\* terminal; no two stages read the same pipe and a pipe's read end has one
\* holder at most.
C19_StagesWiredLeftToRight ==
    LET kinds == SegKinds
        n == Len(kinds)
    IN  ContainsPipe(line) =>
        /\ \A c \in 1..(Len(procs) - 1) : procs[c].stage < procs[c + 1].stage
        /\ \A c \in DOMAIN procs :
              LET j == procs[c].stage
                  in == procs[c].stdin
              IN  /\ j \in 1..n /\ kinds[j] = "Program"
                  /\ j = 1 => in = Tty
                  /\ j > 1 => in.kind = "pipe"
                  /\ (j > 1 /\ kinds[j - 1] = "Program") =>
                        /\ c > 1 /\ procs[c - 1].stage = j - 1
                        /\ in = procs[c - 1].stdout
                  /\ (j > 1 /\ kinds[j - 1] \in TextKinds) =>
                        /\ \A d \in DOMAIN procs : procs[d].stdout # in
                        /\ pipes[in.pipe].writers \subseteq {Shell}
                        /\ pipes[in.pipe].buf \in {<<>>, <<SegBuffered(j - 1)>>}
                  /\ j > 1 => kinds[j - 1] \in TextKinds \cup {"Program"}
                  /\ procs[c].stdout.kind = (IF j = n THEN "tty" ELSE "pipe")
                  /\ \A d \in DOMAIN procs :
                        (d # c /\ in.kind = "pipe") => procs[d].stdin # in
        /\ \A p \in DOMAIN pipes : Cardinality(pipes[p].readers) <= 1

\* `seq | cat | cat`: all three are spawned, each reading its neighbour.
C19_Witness ==
    /\ pc = "wait"
    /\ line = JoinPipe(<<<<"seq">>, <<"cat">>, <<"cat">>>>)
    /\ Len(procs) = 3
    /\ procs[2].stdin = procs[1].stdout
    /\ procs[3].stdin = procs[2].stdout

\* C20: the shell holds the write end of a child's input only while it
\* writes the buffered text to the child it spawned last, with no wait yet
\* begun; so in the wait loop a child that copies its input and has taken
\* all of it is at end of input and exits.
C20_WriteEndClosedAfterWrite ==
    /\ \A p \in DOMAIN pipes :
          Shell \in pipes[p].writers =>
              /\ pc = "write"
              /\ pend.child = Len(procs)
              /\ procs[pend.child].stdin = PipeEnd(p)
              /\ waited = <<>>
    /\ \A c \in DOMAIN procs :
          (/\ pc = "wait"
           /\ procs[c].state = "running" /\ procs[c].prog = "cat"
           /\ procs[c].stdin.kind = "pipe"
           /\ pipes[procs[c].stdin.pipe].buf = <<>>
           /\ \A d \in DOMAIN procs : procs[d].stdout # procs[c].stdin)
              => CanExit(c)

\* `echo hi | cat` in the wait loop: cat has copied hi and exited.
C20_Witness ==
    /\ pc = "wait"
    /\ line = JoinPipe(<<<<"echo", "hi">>, <<"cat">>>>)
    /\ procs[1].state = "exited"
    /\ terminal = <<"hi\n">>

====
